---- MODULE Spec2Model ----
(***************************************************************************)
(* Groq TTS proxy (scripts/groq-tts-proxy.py): the speech handler as a     *)
(* state machine over concurrently handled requests.                       *)
(*                                                                         *)
(* Python str values are sequences of one-character strings, so that       *)
(* str.startswith and == are computed, not assumed.  A JSON value is a     *)
(* record [t |-> its JSON type, v |-> its value]; a JSON object's v is a   *)
(* function from its keys to JSON values (a Python dict).  Bytes are       *)
(* sequences of numbers 0..255.                                            *)
(***************************************************************************)
EXTENDS Integers, Sequences, FiniteSets, TLC

\* ---------------------------------------------------------------- bounds
NumReqs == 2          \* requests handled concurrently
MaxPayloadLen == 2    \* longest upstream payload, in bytes

\* ------------------------------------------------------- program constants
\* line 9: GROQ_BASE (an opaque URL)
GROQ_BASE == "https://api.groq.com/openai/v1"

\* line 11: the initial value of the module global VOICES
VoiceCatalog ==
  << <<"t","r","o","y">>, <<"a","u","s","t","i","n">>, <<"d","a","n","i","e","l">>,
     <<"a","u","t","u","m","n">>, <<"d","i","a","n","a">>, <<"h","a","n","n","a","h">> >>

\* line 30: the literal "canopylabs/"
ModelPrefix == <<"c","a","n","o","p","y","l","a","b","s","/">>

\* line 31: the literal "canopylabs/orpheus-v1-english"
DefaultModel ==
  ModelPrefix \o <<"o","r","p","h","e","u","s","-","v","1","-","e","n","g","l","i","s","h">>

\* line 34: the literal "troy"
DefaultVoice == <<"t","r","o","y">>

\* line 38: the literal "wav"
DefaultFormat == <<"w","a","v">>

\* line 40: httpx.AsyncClient(timeout=120)
ClientTimeout == 120

\* ------------------------------------------------------------ JSON values
\* A JSON value as json.loads returns it: t is its type, v its literal text
\* (for a str, its characters), m its members when it is an object (a dict).
NoMembers == [k \in {} |-> 0]
Str(s) == [t |-> "str", v |-> s, m |-> NoMembers]
JNull == [t |-> "null", v |-> <<"null">>, m |-> NoMembers]
JNum == [t |-> "num", v |-> <<"1">>, m |-> NoMembers]
JBool == [t |-> "bool", v |-> <<"true">>, m |-> NoMembers]
JArr == [t |-> "arr", v |-> <<"[", "troy", "]">>, m |-> NoMembers]
JNested == [t |-> "obj", v |-> <<"{", "}">>, m |-> NoMembers]
Obj(f) == [t |-> "obj", v |-> <<>>, m |-> f]

\* Python's None: what dict.get gives for an absent key (line 33), and the
\* value of a handler local or a message that does not exist yet
None == [t |-> "None", v |-> <<>>, m |-> NoMembers]

\* The result of evaluating Python code: a value, or a raised exception
Return(x) == [ok |-> TRUE, value |-> x, exc |-> ""]
Raise(e) == [ok |-> FALSE, value |-> None, exc |-> e]

\* dict.get(key, default) (lines 29, 33)
DictGet(d, key, default) == IF key \in DOMAIN d.m THEN d.m[key] ELSE default

\* d[key] = value on a dict (lines 31, 34, 38)
DictSet(d, key, value) ==
  Obj([k \in (DOMAIN d.m) \cup {key} |-> IF k = key THEN value ELSE d.m[k]])

\* str.startswith (line 30)
StartsWith(s, p) == Len(s) >= Len(p) /\ SubSeq(s, 1, Len(p)) = p

\* x in list, for a Python list of str: some element == x (line 33)
InList(x, list) == x.t = "str" /\ \E i \in 1..Len(list) : list[i] = x.v

\* ---------------------------------------------------------- normalization
\* ModelRule with the prefix test missing the trailing slash
ModelRuleNoSlash(body) ==
  IF body.t # "obj" THEN Raise("AttributeError")
  ELSE LET model == DictGet(body, "model", Str(<<>>))
       IN  IF model.t # "str" THEN Raise("AttributeError")
           ELSE IF ~StartsWith(model.v, SubSeq(ModelPrefix, 1, Len(ModelPrefix) - 1))
                THEN Return(DictSet(body, "model", Str(DefaultModel)))
                ELSE Return(body)

\* lines 29-31.  body.get raises AttributeError unless body is a dict, and
\* model.startswith raises AttributeError unless model is a str.
ModelRule(body) ==
  IF body.t # "obj" THEN Raise("AttributeError")
  ELSE LET model == DictGet(body, "model", Str(<<>>))
       IN  IF model.t # "str" THEN Raise("AttributeError")
           ELSE IF ~StartsWith(model.v, ModelPrefix)
                THEN Return(DictSet(body, "model", Str(DefaultModel)))
                ELSE Return(body)

\* VoiceRule defaulting only an absent voice
VoiceRuleIfAbsent(body, voices) ==
  IF "voice" \notin DOMAIN body.m
  THEN DictSet(body, "voice", Str(DefaultVoice))
  ELSE body

\* lines 33-34
VoiceRule(body, voices) ==
  IF ~InList(DictGet(body, "voice", None), voices)
  THEN DictSet(body, "voice", Str(DefaultVoice))
  ELSE body

\* FormatRule written as `if not body.get("response_format")`
FormatRuleIfFalsy(body) ==
  IF DictGet(body, "response_format", None).t \in {"None", "null"}
     \/ DictGet(body, "response_format", None) = Str(<<>>)
  THEN DictSet(body, "response_format", Str(DefaultFormat))
  ELSE body

\* lines 36-38
FormatRule(body) ==
  IF "response_format" \notin DOMAIN body.m
  THEN DictSet(body, "response_format", Str(DefaultFormat))
  ELSE body

\* Normalize rebuilding the body from the three recognized keys alone
NormalizeRecognizedOnly(body, voices) ==
  LET r == ModelRule(body)
  IN  IF ~r.ok THEN r
      ELSE LET b == FormatRule(VoiceRule(r.value, voices))
           IN  Return(Obj([k \in {"model", "voice", "response_format"} |-> b.m[k]]))

\* lines 29-38, in the code's order
Normalize(body, voices) ==
  LET r == ModelRule(body)
  IN  IF ~r.ok THEN r ELSE Return(FormatRule(VoiceRule(r.value, voices)))

\* ------------------------------------------------------------- HTTP values
\* bytes are sequences of two-digit hexadecimal strings
ByteVals == {"52", "ff"}

\* bytes.decode("utf-8", errors="replace"), which is how httpx computes
\* Response.text (line 47): an ASCII byte is its character, a byte that
\* starts no valid sequence is U+FFFD
DecodeByte(b) == IF b = "52" THEN "R" ELSE "U+FFFD"
Text(content) == [i \in 1..Len(content) |-> DecodeByte(content[i])]

NoHeaders == [k \in {} |-> ""]

\* line 40-45: the request client.post sends
UpstreamCall(body, key) ==
  [url |-> <<GROQ_BASE, "/audio/speech">>,
   json |-> body,
   headers |-> [Authorization |-> <<"Bearer ", key>>],
   timeout |-> ClientTimeout]

NoCall == [url |-> <<>>, json |-> None, headers |-> [Authorization |-> <<>>], timeout |-> 0]

\* What the network does with a call: the upstream answers, the connection
\* fails, or nothing arrives within the client's timeout
UpstreamResponse(status, content, hdrs) ==
  [kind |-> "response", status_code |-> status, content |-> content, headers |-> hdrs]
ConnectFailure == [kind |-> "connect_error", status_code |-> 0, content |-> <<>>, headers |-> NoHeaders]
NoAnswer == [kind |-> "no_answer", status_code |-> 0, content |-> <<>>, headers |-> NoHeaders]
NoOutcome == [kind |-> "none", status_code |-> 0, content |-> <<>>, headers |-> NoHeaders]

\* line 41: what `await client.post(...)` evaluates to
ClientPost(outcome) ==
  CASE outcome.kind = "response" -> Return(outcome)
    [] outcome.kind = "connect_error" -> [ok |-> FALSE, value |-> outcome, exc |-> "ConnectError"]
    [] OTHER -> [ok |-> FALSE, value |-> outcome, exc |-> "ReadTimeout"]

\* The responses the caller can get.  body.kind is "bytes" for raw content,
\* "detail" for the JSON object {"detail": v}, "text" for plain text.
NoResponse == [status_code |-> 0, headers |-> NoHeaders, body |-> [kind |-> "none", v |-> <<>>]]

\* AudioResponse relaying the upstream's headers
AudioResponseRelayHeaders(resp) ==
  [status_code |-> 200,
   headers |-> resp.headers,
   body |-> [kind |-> "bytes", v |-> resp.content]]

\* line 48: Response(content=resp.content, media_type="audio/wav"), whose
\* status_code defaults to 200
AudioResponse(resp) ==
  [status_code |-> 200,
   headers |-> ("content-type" :> "audio/wav" @@ "content-length" :> ToString(Len(resp.content))),
   body |-> [kind |-> "bytes", v |-> resp.content]]

\* line 47: HTTPException(status_code=resp.status_code, detail=resp.text)
HTTPException(status, detail) ==
  [status_code |-> status,
   headers |-> ("content-type" :> "application/json"),
   body |-> [kind |-> "detail", v |-> detail]]

\* An exception that speech does not catch (lines 27, 29, 30, 41): the
\* server answers 500 Internal Server Error whatever the exception was
UnhandledException(exc) ==
  [status_code |-> 500,
   headers |-> ("content-type" :> "text/plain; charset=utf-8"),
   body |-> [kind |-> "text", v |-> <<"Internal Server Error">>]]

\* IsOk accepting every 2xx status
IsOk2xx(resp) == resp.status_code \in 200..299

\* line 46, negated
IsOk(resp) == resp.status_code = 200

\* line 27: request.json() is json.loads of the request's body
JsonLoads(raw) == IF raw.wellformed THEN Return(raw.value) ELSE Raise("JSONDecodeError")

\* ----------------------------------------------------------------- inputs
Absent == [t |-> "absent", v |-> <<>>, m |-> NoMembers]

ModelValues ==
  { Str(<<>>), Str(<<"g","p","t","-","4">>), Str(ModelPrefix), Str(DefaultModel),
    Str(SubSeq(ModelPrefix, 1, Len(ModelPrefix) - 1)), Str(ModelPrefix \o <<"x">>),
    Str(<<"x">> \o ModelPrefix), JNull, JNum, JBool, JArr, JNested }

VoiceValues ==
  { Str(<<"t","r","o","y">>), Str(<<"h","a","n","n","a","h">>), Str(<<"b","o","b">>),
    Str(<<"T","r","o","y">>), Str(<<>>), JNull, JNum, JArr }

FormatValues ==
  { Str(<<"w","a","v">>), Str(<<"m","p","3">>), Str(<<>>), JNull, JNum }

InputValues == { Str(<<"h","i">>) }
SpeedValues == { JNum }

\* The dict with the given values under the five keys, less the absent ones
MkObj(mo, vo, fo, io, so) ==
  LET o == ("model" :> mo @@ "voice" :> vo @@ "response_format" :> fo
             @@ "input" :> io @@ "speed" :> so)
      K == {k \in DOMAIN o : o[k] # Absent}
  IN  Obj([k \in K |-> o[k]])

Objects ==
  { MkObj(mo, vo, fo, io, so) :
      mo \in ModelValues \cup {Absent}, vo \in VoiceValues \cup {Absent},
      fo \in FormatValues \cup {Absent}, io \in InputValues \cup {Absent},
      so \in SpeedValues \cup {Absent} }

\* A request body as sent: JSON text standing for a value, or text that is no JSON
RawJson(x) == [wellformed |-> TRUE, value |-> x]
NotJson == [wellformed |-> FALSE, value |-> None]

AllBodies ==
  {RawJson(o) : o \in Objects}
    \cup {RawJson(x) : x \in {JNull, JNum, JBool, JArr, Str(<<"t","r","o","y">>)}}
    \cup {NotJson}

FewBodies ==
  { NotJson,
    RawJson(MkObj(Absent, Str(<<"b","o","b">>), Absent, Absent, Absent)),
    RawJson(MkObj(JNum, Absent, Absent, Absent, Absent)),
    RawJson(MkObj(Str(ModelPrefix \o <<"x">>), Str(<<"h","a","n","n","a","h">>),
                  Str(<<"m","p","3">>), Str(<<"h","i">>), Absent)) }

RECURSIVE BytesUpTo(_)
BytesUpTo(n) ==
  IF n = 0 THEN {<<>>}
  ELSE LET shorter == BytesUpTo(n - 1)
       IN  shorter \cup {Append(c, b) : c \in shorter, b \in ByteVals}

Payloads == BytesUpTo(MaxPayloadLen)
Statuses == {200, 201, 302, 401, 429, 500, 503}
UpstreamHeaders ==
  { ("content-type" :> "audio/wav" @@ "x-request-id" :> "req_1"),
    ("content-type" :> "application/json" @@ "x-request-id" :> "req_2"
       @@ "retry-after" :> "2") }

AllOutcomes ==
  {UpstreamResponse(st, c, h) : st \in Statuses, c \in Payloads, h \in UpstreamHeaders}
    \cup {ConnectFailure, NoAnswer}

FewOutcomes ==
  { UpstreamResponse(200, <<"52">>, ("content-type" :> "audio/wav" @@ "x-request-id" :> "req_1")),
    UpstreamResponse(429, <<"52", "52">>, ("content-type" :> "application/json" @@ "x-request-id" :> "req_2")),
    UpstreamResponse(500, <<>>, ("content-type" :> "application/json" @@ "x-request-id" :> "req_3")),
    ConnectFailure, NoAnswer }

EnvKeys == {"", "gsk_test"}

\* ------------------------------------------------------------------ state
VARIABLES
  VOICES,        \* line 11: the module global
  GROQ_API_KEY,  \* line 8: the module global
  pc,            \* where each request's handler stands
  raw,           \* each request's body as received
  body,          \* line 27: the handler's local `body`
  call,          \* the request sent upstream for each request, or NoCall
  outcome,       \* what the network did with that call
  response,      \* the response each caller got
  info           \* the last answer of root or get_voices

vars == <<VOICES, GROQ_API_KEY, pc, raw, body, call, outcome, response, info>>

Reqs == 1..NumReqs

NoInfo == [route |-> "", payload |-> <<>>]

\* lines 8, 11: the module's globals after import, and no request yet
InitWith(keys) ==
  /\ VOICES = VoiceCatalog
  /\ GROQ_API_KEY \in keys
  /\ pc = [r \in Reqs |-> "idle"]
  /\ raw = [r \in Reqs |-> NotJson]
  /\ body = [r \in Reqs |-> None]
  /\ call = [r \in Reqs |-> NoCall]
  /\ outcome = [r \in Reqs |-> NoOutcome]
  /\ response = [r \in Reqs |-> NoResponse]
  /\ info = NoInfo

\* lines 13-15
Root ==
  /\ info' = [route |-> "/", payload |-> <<"ok", "Groq TTS Proxy">>]
  /\ UNCHANGED <<VOICES, GROQ_API_KEY, pc, raw, body, call, outcome, response>>

\* lines 17-22
GetVoices ==
  /\ info' = [route |-> "voices", payload |-> VOICES]
  /\ UNCHANGED <<VOICES, GROQ_API_KEY, pc, raw, body, call, outcome, response>>

\* lines 24-26: a POST to /v1/audio/speech or /audio/speech starts a handler
Arrive(r, bodies) ==
  /\ pc[r] = "idle"
  /\ \E b \in bodies : raw' = [raw EXCEPT ![r] = b]
  /\ pc' = [pc EXCEPT ![r] = "reading"]
  /\ UNCHANGED <<VOICES, GROQ_API_KEY, body, call, outcome, response, info>>

\* line 27: body = await request.json()
ReadJson(r) ==
  /\ pc[r] = "reading"
  /\ LET res == JsonLoads(raw[r])
     IN  IF res.ok
         THEN /\ body' = [body EXCEPT ![r] = res.value]
              /\ pc' = [pc EXCEPT ![r] = "parsed"]
              /\ UNCHANGED response
         ELSE /\ response' = [response EXCEPT ![r] = UnhandledException(res.exc)]
              /\ pc' = [pc EXCEPT ![r] = "done"]
              /\ UNCHANGED body
  /\ UNCHANGED <<VOICES, GROQ_API_KEY, raw, call, outcome, info>>

\* SpeechGlobals remembering every unknown voice it has seen in VOICES
SpeechGlobalsLearning(r) ==
  /\ VOICES' = IF /\ body[r].t = "obj"
                  /\ DictGet(body[r], "voice", None).t = "str"
                  /\ ~InList(DictGet(body[r], "voice", None), VOICES)
               THEN Append(VOICES, DictGet(body[r], "voice", None).v)
               ELSE VOICES
  /\ UNCHANGED GROQ_API_KEY

\* lines 26-48: speech assigns neither global; it writes only its local dict
SpeechGlobals(r) == UNCHANGED <<VOICES, GROQ_API_KEY>>

\* lines 29-45: normalize the body and send it upstream
NormalizeAndPost(r) ==
  /\ pc[r] = "parsed"
  /\ LET res == Normalize(body[r], VOICES)
     IN  IF res.ok
         THEN /\ body' = [body EXCEPT ![r] = res.value]
              /\ call' = [call EXCEPT ![r] = UpstreamCall(res.value, GROQ_API_KEY)]
              /\ pc' = [pc EXCEPT ![r] = "awaiting"]
              /\ UNCHANGED response
         ELSE /\ response' = [response EXCEPT ![r] = UnhandledException(res.exc)]
              /\ pc' = [pc EXCEPT ![r] = "done"]
              /\ UNCHANGED <<body, call>>
  /\ SpeechGlobals(r)
  /\ UNCHANGED <<raw, outcome, info>>

\* line 41: the network settles the call while the handler is suspended
UpstreamSettles(r, outcomes) ==
  /\ pc[r] = "awaiting"
  /\ \E o \in outcomes : outcome' = [outcome EXCEPT ![r] = o]
  /\ pc' = [pc EXCEPT ![r] = "resumed"]
  /\ UNCHANGED <<VOICES, GROQ_API_KEY, raw, body, call, response, info>>

\* lines 41-48: the handler resumes with the result of client.post
Finish(r) ==
  /\ pc[r] = "resumed"
  /\ LET res == ClientPost(outcome[r])
     IN  response' = [response EXCEPT ![r] =
           IF ~res.ok THEN UnhandledException(res.exc)
           ELSE IF ~IsOk(res.value)
                THEN HTTPException(res.value.status_code, Text(res.value.content))
                ELSE AudioResponse(res.value)]
  /\ pc' = [pc EXCEPT ![r] = "done"]
  /\ UNCHANGED <<VOICES, GROQ_API_KEY, raw, body, call, outcome, info>>

\* lines 24-26: the exchange is over and its handler's locals are gone; the
\* route takes a later request
Close(r) ==
  /\ pc[r] = "done"
  /\ pc' = [pc EXCEPT ![r] = "idle"]
  /\ raw' = [raw EXCEPT ![r] = NotJson]
  /\ body' = [body EXCEPT ![r] = None]
  /\ call' = [call EXCEPT ![r] = NoCall]
  /\ outcome' = [outcome EXCEPT ![r] = NoOutcome]
  /\ response' = [response EXCEPT ![r] = NoResponse]
  /\ UNCHANGED <<VOICES, GROQ_API_KEY, info>>

\* ----------------------------------------------------------- specifications
\* Requests handled concurrently, over a few bodies and upstream outcomes
Init == InitWith(EnvKeys)

Next ==
  \/ Root
  \/ GetVoices
  \/ \E r \in Reqs : Arrive(r, FewBodies)
  \/ \E r \in Reqs : ReadJson(r)
  \/ \E r \in Reqs : NormalizeAndPost(r)
  \/ \E r \in Reqs : UpstreamSettles(r, FewOutcomes)
  \/ \E r \in Reqs : Finish(r)
  \/ \E r \in Reqs : Close(r)

Spec == Init /\ [][Next]_vars

\* One request at a time, over every body and a few upstream outcomes
InitBodies == InitWith({""})

NextBodies ==
  \/ Arrive(1, AllBodies)
  \/ ReadJson(1)
  \/ NormalizeAndPost(1)
  \/ UpstreamSettles(1, FewOutcomes)
  \/ Finish(1)
  \/ Close(1)

SpecBodies == InitBodies /\ [][NextBodies]_vars

\* One request at a time, over a few bodies and every upstream outcome
NextUpstream ==
  \/ Arrive(1, FewBodies)
  \/ ReadJson(1)
  \/ NormalizeAndPost(1)
  \/ UpstreamSettles(1, AllOutcomes)
  \/ Finish(1)
  \/ Close(1)

SpecUpstream == InitBodies /\ [][NextUpstream]_vars

\* ------------------------------------------------------------- properties
RecognizedKeys == {"model", "voice", "response_format"}
Forwarded(r) == call[r] # NoCall
IsObjectRequest(r) == pc[r] # "idle" /\ raw[r].wellformed /\ raw[r].value.t = "obj"
PastNormalization(r) == pc[r] \in {"awaiting", "resumed", "done"}
In(r) == raw[r].value
Out(r) == call[r].json
HasStr(d, k) == k \in DOMAIN d.m /\ d.m[k].t = "str"
InCatalog(x) ==
  /\ x.t = "str"
  /\ x.v \in { <<"t","r","o","y">>, <<"a","u","s","t","i","n">>, <<"d","a","n","i","e","l">>,
               <<"a","u","t","u","m","n">>, <<"d","i","a","n","a">>, <<"h","a","n","n","a","h">> }
UpstreamAnswered(r) == pc[r] = "done" /\ outcome[r].kind = "response"
NetworkFailed(r) == pc[r] = "done" /\ outcome[r].kind \in {"connect_error", "no_answer"}

\* C1: a JSON-object request whose model is absent, or a string that does not
\* start with canopylabs/, is forwarded with model canopylabs/orpheus-v1-english;
\* one whose model is a string starting with canopylabs/ is forwarded with its
\* model unchanged.
C1_ModelDefaulted ==
  \A r \in Reqs :
    (IsObjectRequest(r) /\ PastNormalization(r)
       /\ ("model" \notin DOMAIN In(r).m \/ In(r).m["model"].t = "str"))
    => /\ Forwarded(r)
       /\ "model" \in DOMAIN Out(r).m
       /\ IF HasStr(In(r), "model") /\ StartsWith(In(r).m["model"].v, ModelPrefix)
          THEN Out(r).m["model"] = In(r).m["model"]
          ELSE Out(r).m["model"] = Str(DefaultModel)

C1_Witness ==
  \E r \in Reqs :
    /\ Forwarded(r)
    /\ HasStr(In(r), "model") /\ In(r).m["model"].v = ModelPrefix
    /\ Out(r).m["model"] = Str(ModelPrefix)

\* C2: the body forwarded for a JSON-object request has voice troy when the
\* input's voice is absent or no catalog entry, and the input's voice unchanged
\* when it is one; so a forwarded voice is always a catalog entry.
C2_VoiceDefaulted ==
  \A r \in Reqs :
    (IsObjectRequest(r) /\ Forwarded(r))
    => /\ "voice" \in DOMAIN Out(r).m
       /\ IF "voice" \in DOMAIN In(r).m /\ InCatalog(In(r).m["voice"])
          THEN Out(r).m["voice"] = In(r).m["voice"]
          ELSE Out(r).m["voice"] = Str(<<"t","r","o","y">>)
       /\ InCatalog(Out(r).m["voice"])

C2_Witness ==
  \E r \in Reqs :
    /\ Forwarded(r)
    /\ HasStr(In(r), "voice") /\ In(r).m["voice"].v = <<"T","r","o","y">>
    /\ Out(r).m["voice"] = Str(<<"t","r","o","y">>)

\* C3: a request whose body is no JSON, or JSON that is no object, is answered
\* with a 4xx status and makes no upstream call.
C3_MalformedIsClientError ==
  \A r \in Reqs :
    (pc[r] = "done" /\ ~IsObjectRequest(r))
    => /\ response[r].status_code \in 400..499
       /\ ~Forwarded(r)

\* C4: normalization never fails: every JSON-object request, whatever the
\* types of its model, voice and response_format, goes on to the upstream call.
C4_NormalizationNeverFails ==
  \A r \in Reqs :
    (IsObjectRequest(r) /\ PastNormalization(r)) => Forwarded(r)

\* C5: when the upstream answers with a status other than 200, the caller gets
\* that status, the upstream's body text as the error detail, and no audio.
C5_UpstreamErrorRelayed ==
  \A r \in Reqs :
    (UpstreamAnswered(r) /\ outcome[r].status_code # 200)
    => /\ response[r].status_code = outcome[r].status_code
       /\ response[r].body = [kind |-> "detail", v |-> Text(outcome[r].content)]
       /\ response[r].headers["content-type"] # "audio/wav"

C5_Witness ==
  \E r \in Reqs :
    /\ UpstreamAnswered(r)
    /\ outcome[r].status_code = 201
    /\ outcome[r].content = <<"52", "ff">>
    /\ response[r].status_code = 201
    /\ response[r].body.v = <<"R", "U+FFFD">>

\* C6: when the upstream answers 200 with payload B, the caller gets status
\* 200, content type audio/wav and body B, and none of the upstream's headers.
C6_AudioRelayed ==
  \A r \in Reqs :
    (UpstreamAnswered(r) /\ outcome[r].status_code = 200)
    => /\ response[r].status_code = 200
       /\ response[r].headers["content-type"] = "audio/wav"
       /\ response[r].body = [kind |-> "bytes", v |-> outcome[r].content]
       /\ DOMAIN response[r].headers \subseteq {"content-type", "content-length"}

C6_Witness ==
  \E r \in Reqs :
    /\ UpstreamAnswered(r)
    /\ outcome[r].status_code = 200
    /\ outcome[r].content = <<"ff", "52">>
    /\ outcome[r].headers["content-type"] = "application/json"
    /\ response[r].body.v = <<"ff", "52">>

\* C7: a network-level failure of the upstream call is answered with a 5xx
\* status, by a response that differs from the one a malformed body gets and
\* from the one an upstream non-200 answer gets.
C7_NetworkFailureDistinct ==
  \A r \in Reqs :
    NetworkFailed(r)
    => /\ response[r].status_code \in 500..599
       /\ \A q \in Reqs :
            (pc[q] = "done" /\ ~IsObjectRequest(q)) => response[q] # response[r]
       /\ \A q \in Reqs :
            (UpstreamAnswered(q) /\ outcome[q].status_code # 200)
            => response[q] # response[r]

\* C8: the body forwarded for a JSON-object request has response_format wav
\* when the input lacks the key, and the input's value, whatever it is, when
\* the input has it.
C8_FormatDefaulted ==
  \A r \in Reqs :
    (IsObjectRequest(r) /\ Forwarded(r))
    => /\ "response_format" \in DOMAIN Out(r).m
       /\ IF "response_format" \in DOMAIN In(r).m
          THEN Out(r).m["response_format"] = In(r).m["response_format"]
          ELSE Out(r).m["response_format"] = Str(<<"w","a","v">>)

C8_Witness ==
  \E r \in Reqs :
    /\ Forwarded(r)
    /\ "response_format" \in DOMAIN In(r).m
    /\ In(r).m["response_format"] = JNull
    /\ Out(r).m["response_format"] = JNull

\* C9: the forwarded body's keys are the input's keys plus model, voice and
\* response_format, and every other key keeps the input's value.
C9_OtherKeysUntouched ==
  \A r \in Reqs :
    (IsObjectRequest(r) /\ Forwarded(r))
    => /\ DOMAIN Out(r).m = DOMAIN In(r).m \cup RecognizedKeys
       /\ \A k \in DOMAIN In(r).m \ RecognizedKeys : Out(r).m[k] = In(r).m[k]

C9_Witness ==
  \E r \in Reqs :
    /\ Forwarded(r)
    /\ DOMAIN In(r).m = {"input", "speed"}
    /\ Out(r).m["input"] = Str(<<"h","i">>)
    /\ Out(r).m["speed"] = JNum
    /\ DOMAIN Out(r).m = {"input", "speed", "model", "voice", "response_format"}

\* C10: under every interleaving, what is forwarded for a request depends on
\* its body alone and what its caller gets on its body and its upstream outcome
\* alone (two requests that agree on these agree on the results, whatever ran
\* between them), and no step changes VOICES or GROQ_API_KEY.
SameInSameOut ==
  \A r, q \in Reqs :
    /\ (PastNormalization(r) /\ PastNormalization(q) /\ raw[r] = raw[q])
       => call[r] = call[q]
    /\ (pc[r] = "done" /\ pc[q] = "done" /\ raw[r] = raw[q] /\ outcome[r] = outcome[q])
       => response[r] = response[q]

C10_RequestsIsolated ==
  /\ []SameInSameOut
  /\ [][VOICES' = VOICES /\ GROQ_API_KEY' = GROQ_API_KEY]_vars

C10_Witness ==
  \E r, q \in Reqs :
    /\ r # q
    /\ pc[r] = "done" /\ pc[q] = "done"
    /\ Forwarded(r) /\ Forwarded(q)
    /\ raw[r] = raw[q]
    /\ In(r).m["voice"] = Str(<<"b","o","b">>)
    /\ outcome[r] # outcome[q]
    /\ response[r] # response[q]
    /\ info.route = "voices"

====
